---- MODULE Spec2Model ----
(***************************************************************************)
(* Weight-balanced binary search tree (wbtree, tree.go).                   *)
(*                                                                         *)
(* A tree handle is either NIL (the nil *Tree) or a node record with the   *)
(* fields of the Go struct.  Nodes are exclusively owned by their parent,  *)
(* so the pointer graph is a tree and is written as a nested record.       *)
(* The state is the handle the single owner currently holds, threaded      *)
(* through Insert and Remove, together with an abstract finite map that    *)
(* is updated side by side and the record of the last call and its result. *)
(***************************************************************************)
EXTENDS Integers, Sequences, FiniteSets, TLC

\* ---------------------------------------------------------------- bounds
MaxKey == 5
MaxN == 2

KeySet == 1..MaxKey
Vals == {"a", "b"}

\* ------------------------------------------------------------- constants
treeDelta == 3
treeGamma == 2

\* the nil *Tree
NIL == [nil |-> TRUE]

\* the outcome of a call that dereferences a nil pointer: the runtime
\* panics and the call returns nothing
PANIC == [panic |-> TRUE]

\* the zero value of K and of V (var key K / var value V left unassigned)
ZeroKey == 0
ZeroVal == "zero"

\* tree:  the handle returned by the previous call (NIL at first)
\* model: the abstract finite map, a function from the keys present
\* last:  the last call: its name, arguments, results, and the handle it
\*        was called on (pre)
\* phase: "build", or "drain" once the owner only removes present keys
VARIABLES tree, model, last, phase

vars == <<tree, model, last, phase>>

\* the addresses of the nodes of t
RECURSIVE Addrs(_)
Addrs(t) ==
    IF t = NIL THEN {} ELSE {t.addr} \cup Addrs(t.left) \cup Addrs(t.right)

\* the address an allocation returns: one that no live node has.  Every
\* live node is reachable from the handle the owner holds; which free
\* address is handed out makes no difference, the least one is taken.
NewAddr ==
    LET used == Addrs(tree)
    IN  CHOOSE a \in 1..(Cardinality(used) + 1) :
            /\ a \notin used
            /\ \A b \in 1..(a - 1) : b \in used

\* &Tree{...}: a newly allocated struct and its five fields; addr is the
\* pointer value, the identity of the node
Tree(k, v, l, r, cs) ==
    [addr |-> NewAddr,
     key |-> k, value |-> v, left |-> l, right |-> r, childSize |-> cs]

\* cmpUint.Cmp, the three-way comparison of the Cmpable contract
Cmp(a, b) == IF a = b THEN 0 ELSE IF a < b THEN -1 ELSE 1

RootKey(t) == IF t # NIL THEN t.key ELSE ZeroKey

RootValue(t) == IF t # NIL THEN t.value ELSE ZeroVal

\* Size that counts the nil handle as a node
Size_NilCounts(t) == IF t = NIL THEN 1 ELSE t.childSize + 1

Size(t) == IF t = NIL THEN 0 ELSE t.childSize + 1

\* ------------------------------------------------------------ balance
\* the paired assignments "n.left, n.right = p, q" followed by the swap
\* "if !rightHeavy { n.left, n.right = n.right, n.left }"
SetChildren_NoMirror(n, p, q, rightHeavy) ==
    [n EXCEPT !.left = p, !.right = q]

SetChildren(n, p, q, rightHeavy) ==
    IF rightHeavy
    THEN [n EXCEPT !.left = p, !.right = q]
    ELSE [n EXCEPT !.left = q, !.right = p]

\* the balance test that finds every node balanced
isBalanced_Always(xSize, cSize) == TRUE

\* "balanced, no rotation"
isBalanced(xSize, cSize) == (xSize + 1) * treeDelta >= cSize + 1

\* the test that chooses the single rotation
isSingle_Always(bSize, zSize) == TRUE

\* the test with the comparison turned round
isSingle_Inverted(bSize, zSize) == bSize + 1 >= (zSize + 1) * treeGamma

isSingle(bSize, zSize) == bSize + 1 < (zSize + 1) * treeGamma

\* single rotation: c moves up, t keeps x and b, c keeps t and z
rotateSingle_SizeOffByOne(t, c, x, b, z, rightHeavy) ==
    LET t1 == [SetChildren(t, x, b, rightHeavy)
                 EXCEPT !.childSize = Size(x) + Size(b)]
    IN  IF c = NIL THEN PANIC
        ELSE [SetChildren(c, t1, z, rightHeavy)
                EXCEPT !.childSize = t1.childSize + Size(z)]

\* "c.left, c.right = t, z" dereferences c
rotateSingle(t, c, x, b, z, rightHeavy) ==
    LET t1 == [SetChildren(t, x, b, rightHeavy)
                 EXCEPT !.childSize = Size(x) + Size(b)]
    IN  IF c = NIL THEN PANIC
        ELSE [SetChildren(c, t1, z, rightHeavy)
                EXCEPT !.childSize = Size(t1) + Size(z)]

\* double rotation with the two children of b handed to the wrong nodes
rotateDouble_SwapsSY(t, c, x, b, z, rightHeavy) ==
    IF b = NIL \/ c = NIL THEN PANIC
    ELSE
      LET s == IF rightHeavy THEN b.right ELSE b.left
          y == IF rightHeavy THEN b.left ELSE b.right
          t1 == [SetChildren(t, x, s, rightHeavy)
                   EXCEPT !.childSize = Size(x) + Size(s)]
          c1 == [SetChildren(c, y, z, rightHeavy)
                   EXCEPT !.childSize = Size(y) + Size(z)]
      IN  [SetChildren(b, t1, c1, rightHeavy)
             EXCEPT !.childSize = Size(t1) + Size(c1)]

\* double rotation: b moves up, t keeps x and s, c keeps y and z
\* "s, y := b.left, b.right" dereferences b, "c.left, c.right = y, z" c
rotateDouble(t, c, x, b, z, rightHeavy) ==
    IF b = NIL \/ c = NIL THEN PANIC
    ELSE
      LET s == IF rightHeavy THEN b.left ELSE b.right
          y == IF rightHeavy THEN b.right ELSE b.left
          t1 == [SetChildren(t, x, s, rightHeavy)
                   EXCEPT !.childSize = Size(x) + Size(s)]
          c1 == [SetChildren(c, y, z, rightHeavy)
                   EXCEPT !.childSize = Size(y) + Size(z)]
      IN  [SetChildren(b, t1, c1, rightHeavy)
             EXCEPT !.childSize = Size(t1) + Size(c1)]

\* balance without "b, z = z, b" for the left-heavy case
balance_NoGrandchildSwap(t, rightHeavy) ==
    LET x == IF rightHeavy THEN t.left ELSE t.right
        c == IF rightHeavy THEN t.right ELSE t.left
        b == IF c # NIL THEN c.left ELSE NIL
        z == IF c # NIL THEN c.right ELSE NIL
    IN  IF isBalanced(Size(x), Size(c)) THEN t
        ELSE IF isSingle(Size(b), Size(z))
             THEN rotateSingle(t, c, x, b, z, rightHeavy)
             ELSE rotateDouble(t, c, x, b, z, rightHeavy)

balance(t, rightHeavy) ==
    LET x == IF rightHeavy THEN t.left ELSE t.right
        c == IF rightHeavy THEN t.right ELSE t.left
        b == IF c # NIL THEN (IF rightHeavy THEN c.left ELSE c.right) ELSE NIL
        z == IF c # NIL THEN (IF rightHeavy THEN c.right ELSE c.left) ELSE NIL
    IN  IF isBalanced(Size(x), Size(c)) THEN t
        ELSE IF isSingle(Size(b), Size(z))
             THEN rotateSingle(t, c, x, b, z, rightHeavy)
             ELSE rotateDouble(t, c, x, b, z, rightHeavy)

\* ------------------------------------------------------------- lookup
RECURSIVE GetNode(_, _)
GetNode_WrongSide(t, key) ==
    IF t = NIL THEN NIL
    ELSE LET compared == Cmp(t.key, key)
         IN  IF compared = 0 THEN t
             ELSE LET next == IF compared > 0 THEN t.right ELSE t.left
                  IN  IF next = NIL THEN NIL ELSE GetNode(next, key)

GetNode(t, key) ==
    IF t = NIL THEN NIL
    ELSE LET compared == Cmp(t.key, key)
         IN  IF compared = 0 THEN t
             ELSE LET next == IF compared < 0 THEN t.right ELSE t.left
                  IN  IF next = NIL THEN NIL ELSE GetNode(next, key)

Get(t, key) == RootValue(GetNode(t, key))

\* ------------------------------------------------------------- Insert
\* returns [tree |-> the new root, ok |-> wasAdded]
RECURSIVE Insert(_, _, _)
\* Insert without the "if !added" early return
Insert_CountsReplace(t, key, val) ==
    IF t = NIL THEN [tree |-> Tree(key, val, NIL, NIL, 0), ok |-> TRUE]
    ELSE
      LET compared == Cmp(t.key, key)
      IN  IF compared = 0
          THEN [tree |-> [t EXCEPT !.value = val], ok |-> FALSE]
          ELSE
            LET addRight == compared < 0
                next == IF addRight THEN t.right ELSE t.left
                sub == IF next = NIL
                       THEN [tree |-> Tree(key, val, NIL, NIL, 0), ok |-> TRUE]
                       ELSE Insert(next, key, val)
                t1 == IF addRight THEN [t EXCEPT !.right = sub.tree]
                                  ELSE [t EXCEPT !.left = sub.tree]
                t2 == [t1 EXCEPT !.childSize = t1.childSize + 1]
            IN  IF sub.tree = PANIC THEN sub
                ELSE [tree |-> balance(t2, addRight), ok |-> sub.ok]

\* Insert that replaces the node of an equal key by a new node
Insert_ReplaceAllocates(t, key, val) ==
    IF t = NIL THEN [tree |-> Tree(key, val, NIL, NIL, 0), ok |-> TRUE]
    ELSE
      LET compared == Cmp(t.key, key)
      IN  IF compared = 0
          THEN [tree |-> Tree(key, val, t.left, t.right, t.childSize),
                ok |-> FALSE]
          ELSE
            LET addRight == compared < 0
                next == IF addRight THEN t.right ELSE t.left
                sub == IF next = NIL
                       THEN [tree |-> Tree(key, val, NIL, NIL, 0), ok |-> TRUE]
                       ELSE Insert(next, key, val)
            IN  IF sub.tree = PANIC THEN sub
                ELSE IF ~sub.ok
                THEN [tree |-> IF addRight THEN [t EXCEPT !.right = sub.tree]
                                           ELSE [t EXCEPT !.left = sub.tree],
                      ok |-> FALSE]
                ELSE
                  LET t1 == IF addRight THEN [t EXCEPT !.right = sub.tree]
                                        ELSE [t EXCEPT !.left = sub.tree]
                      t2 == [t1 EXCEPT !.childSize = t1.childSize + 1]
                  IN  [tree |-> balance(t2, addRight), ok |-> TRUE]

Insert(t, key, val) ==
    IF t = NIL THEN [tree |-> Tree(key, val, NIL, NIL, 0), ok |-> TRUE]
    ELSE
      LET compared == Cmp(t.key, key)
      IN  IF compared = 0
          THEN [tree |-> [t EXCEPT !.value = val], ok |-> FALSE]
          ELSE
            LET addRight == compared < 0
                next == IF addRight THEN t.right ELSE t.left
                sub == IF next = NIL
                       THEN [tree |-> Tree(key, val, NIL, NIL, 0), ok |-> TRUE]
                       ELSE Insert(next, key, val)
            IN  IF sub.tree = PANIC
                THEN \* the panic unwinds through every caller
                     sub
                ELSE IF ~sub.ok
                THEN \* replaced in child tree: the child node was updated in
                     \* place, t still points at it
                     [tree |-> IF addRight THEN [t EXCEPT !.right = sub.tree]
                                           ELSE [t EXCEPT !.left = sub.tree],
                      ok |-> FALSE]
                ELSE
                  LET t1 == IF addRight THEN [t EXCEPT !.right = sub.tree]
                                        ELSE [t EXCEPT !.left = sub.tree]
                      t2 == [t1 EXCEPT !.childSize = t1.childSize + 1]
                  IN  [tree |-> balance(t2, addRight), ok |-> TRUE]

\* -------------------------------------------- traversal and extraction
\* The callbacks handed to forEachNode, as data:
\*   [kind |-> "top", n |-> n]      the closure of top: append, then
\*                                  "return len(result) < n"
\*   [kind |-> "user", stop |-> S]  a ForEach callback that returns false
\*                                  exactly on the keys in S
\* acc is the sequence of nodes the callback has been called on so far.
CallF_OneMore(cb, acc, node) ==
    LET acc1 == Append(acc, node)
    IN  [acc |-> acc1,
         cont |-> IF cb.kind = "top" THEN Len(acc1) <= cb.n
                                     ELSE node.key \notin cb.stop]

CallF(cb, acc, node) ==
    LET acc1 == Append(acc, node)
    IN  [acc |-> acc1,
         cont |-> IF cb.kind = "top" THEN Len(acc1) < cb.n
                                     ELSE node.key \notin cb.stop]

\* returns [acc |-> nodes visited, cont |-> the bool forEachNode returns]
RECURSIVE forEachNode(_, _, _, _)
\* forEachNode that calls f on the node before walking prev
forEachNode_NodeFirst(t, cb, acc, reversed) ==
    LET prev == IF reversed THEN t.right ELSE t.left
        next == IF reversed THEN t.left ELSE t.right
        r1 == CallF(cb, acc, t)
    IN  IF ~r1.cont THEN r1
        ELSE LET r2 == IF prev # NIL
                       THEN forEachNode(prev, cb, r1.acc, reversed)
                       ELSE r1
             IN  IF ~r2.cont THEN r2
                 ELSE IF next = NIL THEN r2
                 ELSE forEachNode(next, cb, r2.acc, reversed)

\* forEachNode that drops the result of the walk of prev
forEachNode_IgnoresPrev(t, cb, acc, reversed) ==
    LET prev == IF reversed THEN t.right ELSE t.left
        next == IF reversed THEN t.left ELSE t.right
        r1 == IF prev # NIL THEN forEachNode(prev, cb, acc, reversed)
                            ELSE [acc |-> acc, cont |-> TRUE]
        r2 == CallF(cb, r1.acc, t)
    IN  IF ~r2.cont THEN r2
        ELSE IF next = NIL THEN r2
        ELSE forEachNode(next, cb, r2.acc, reversed)

forEachNode(t, cb, acc, reversed) ==
    LET prev == IF reversed THEN t.right ELSE t.left
        next == IF reversed THEN t.left ELSE t.right
        r1 == IF prev # NIL THEN forEachNode(prev, cb, acc, reversed)
                            ELSE [acc |-> acc, cont |-> TRUE]
    IN  IF ~r1.cont THEN r1
        ELSE LET r2 == CallF(cb, r1.acc, t)
             IN  IF ~r2.cont THEN r2
                 ELSE IF next = NIL THEN r2
                 ELSE forEachNode(next, cb, r2.acc, reversed)

\* the three projections passed to top
identity(x) == x
getKeyFunc(t) == RootKey(t)
getValFunc(t) == RootValue(t)

ApplyF(f, node) ==
    IF f = "identity" THEN identity(node)
    ELSE IF f = "getKeyFunc" THEN getKeyFunc(node)
    ELSE getValFunc(node)

\* result is the slice built by the closure (a nil slice is <<>>)
top(t, n, reversed, f) ==
    IF t = NIL THEN <<>>
    ELSE LET r == forEachNode(t, [kind |-> "top", n |-> n], <<>>, reversed)
         IN  [i \in 1..Len(r.acc) |-> ApplyF(f, r.acc[i])]

Least(t, n) == top(t, n, FALSE, "identity")
LeastKeys(t, n) == top(t, n, FALSE, "getKeyFunc")
LeastValues(t, n) == top(t, n, FALSE, "getValFunc")
Greatest(t, n) == top(t, n, TRUE, "identity")
GreatestKeys(t, n) == top(t, n, TRUE, "getKeyFunc")
GreatestValues(t, n) == top(t, n, TRUE, "getValFunc")

Keys(t) == LeastKeys(t, Size(t))
Values(t) == LeastValues(t, Size(t))

GreatestNode(t) ==
    LET tp == Greatest(t, 1) IN IF Len(tp) > 0 THEN tp[1] ELSE NIL

LeastNode(t) ==
    LET bottom == Least(t, 1) IN IF Len(bottom) > 0 THEN bottom[1] ELSE NIL

\* ------------------------------------------------------------- Remove
\* Remove returns [tree |-> the new root, ok |-> wasRemoved, under |-> u].
\* tree is PANIC when the call dereferenced a nil pointer; the panic unwinds
\* through every caller.  childSize is a uint64: "t.childSize--" on 0 does
\* not fail, it wraps to 2^64-1.  under is a ghost flag that records that
\* some decrement of the call wrapped; the wrapped value is written as its
\* residue -1.
RECURSIVE Remove(_, _)

\* "remove this node" with a one-child node replaced by its absent side
removeThis_WrongChild(t) ==
    IF t.left = NIL /\ t.right = NIL
    THEN [tree |-> NIL, ok |-> TRUE, under |-> FALSE]
    ELSE IF t.left # NIL /\ t.right # NIL
    THEN
      LET rightMin == LeastNode(t.right)
      IN  IF rightMin = NIL
          THEN [tree |-> PANIC, ok |-> FALSE, under |-> FALSE]
          ELSE
            LET t1 == [t EXCEPT !.key = rightMin.key,
                                !.value = rightMin.value]
                sub == Remove(t1.right, rightMin.key)
                t2 == [t1 EXCEPT !.right = sub.tree]
                t3 == [t2 EXCEPT !.childSize = t2.childSize - 1]
            IN  IF sub.tree = PANIC THEN sub
                ELSE [tree |-> balance(t3, FALSE), ok |-> TRUE,
                      under |-> sub.under \/ t2.childSize = 0]
    ELSE IF t.left = NIL
    THEN [tree |-> t.left, ok |-> TRUE, under |-> FALSE]
    ELSE [tree |-> t.right, ok |-> TRUE, under |-> FALSE]

\* "remove this node" with the leaf returned instead of the empty tree
removeThis_KeepsLeaf(t) ==
    IF t.left = NIL /\ t.right = NIL
    THEN [tree |-> t, ok |-> TRUE, under |-> FALSE]
    ELSE IF t.left # NIL /\ t.right # NIL
    THEN
      LET rightMin == LeastNode(t.right)
      IN  IF rightMin = NIL
          THEN [tree |-> PANIC, ok |-> FALSE, under |-> FALSE]
          ELSE
            LET t1 == [t EXCEPT !.key = rightMin.key,
                                !.value = rightMin.value]
                sub == Remove(t1.right, rightMin.key)
                t2 == [t1 EXCEPT !.right = sub.tree]
                t3 == [t2 EXCEPT !.childSize = t2.childSize - 1]
            IN  IF sub.tree = PANIC THEN sub
                ELSE [tree |-> balance(t3, FALSE), ok |-> TRUE,
                      under |-> sub.under \/ t2.childSize = 0]
    ELSE IF t.left = NIL
    THEN [tree |-> t.right, ok |-> TRUE, under |-> FALSE]
    ELSE [tree |-> t.left, ok |-> TRUE, under |-> FALSE]

\* "remove this node" with the only child copied into t instead of returned
removeThis_CopiesChild(t) ==
    IF t.left = NIL /\ t.right = NIL
    THEN [tree |-> NIL, ok |-> TRUE, under |-> FALSE]
    ELSE IF t.left # NIL /\ t.right # NIL
    THEN
      LET rightMin == LeastNode(t.right)
      IN  IF rightMin = NIL
          THEN [tree |-> PANIC, ok |-> FALSE, under |-> FALSE]
          ELSE
            LET t1 == [t EXCEPT !.key = rightMin.key,
                                !.value = rightMin.value]
                sub == Remove(t1.right, rightMin.key)
                t2 == [t1 EXCEPT !.right = sub.tree]
                t3 == [t2 EXCEPT !.childSize = t2.childSize - 1]
            IN  IF sub.tree = PANIC THEN sub
                ELSE [tree |-> balance(t3, FALSE), ok |-> TRUE,
                      under |-> sub.under \/ t2.childSize = 0]
    ELSE IF t.left = NIL
    THEN [tree |-> [t.right EXCEPT !.addr = t.addr],
          ok |-> TRUE, under |-> FALSE]
    ELSE [tree |-> [t.left EXCEPT !.addr = t.addr],
          ok |-> TRUE, under |-> FALSE]

\* the branch "compared == 0": remove this node
removeThis(t) ==
    IF t.left = NIL /\ t.right = NIL
    THEN \* leaf node, return the empty tree
        [tree |-> NIL, ok |-> TRUE, under |-> FALSE]
    ELSE IF t.left # NIL /\ t.right # NIL
    THEN \* two children, swap values with least on right
      LET rightMin == LeastNode(t.right)
      IN  IF rightMin = NIL
          THEN [tree |-> PANIC, ok |-> FALSE, under |-> FALSE]
          ELSE
            LET t1 == [t EXCEPT !.key = rightMin.key,
                                !.value = rightMin.value]
                sub == Remove(t1.right, rightMin.key)
                t2 == [t1 EXCEPT !.right = sub.tree]
                t3 == [t2 EXCEPT !.childSize = t2.childSize - 1]
            IN  IF sub.tree = PANIC THEN sub
                ELSE [tree |-> balance(t3, FALSE), ok |-> TRUE,
                      under |-> sub.under \/ t2.childSize = 0]
    ELSE IF t.left = NIL
    THEN [tree |-> t.right, ok |-> TRUE, under |-> FALSE]
    ELSE [tree |-> t.left, ok |-> TRUE, under |-> FALSE]

\* Remove with "t.childSize--" and balance moved out of "if removed"
Remove_AlwaysDecrements(t, key) ==
    IF t = NIL THEN [tree |-> t, ok |-> FALSE, under |-> FALSE]
    ELSE
      LET compared == Cmp(t.key, key)
      IN  IF compared = 0 THEN removeThis(t)
          ELSE
            LET removeRight == compared < 0
                next == IF removeRight THEN t.right ELSE t.left
                sub == Remove(next, key)
                t1 == IF removeRight THEN [t EXCEPT !.right = sub.tree]
                                     ELSE [t EXCEPT !.left = sub.tree]
                t2 == [t1 EXCEPT !.childSize = t1.childSize - 1]
            IN  IF sub.tree = PANIC THEN sub
                ELSE [tree |-> balance(t2, ~removeRight), ok |-> sub.ok,
                      under |-> sub.under \/ t1.childSize = 0]

Remove(t, key) ==
    IF t = NIL THEN \* cannot remove from the empty tree
         [tree |-> t, ok |-> FALSE, under |-> FALSE]
    ELSE
      LET compared == Cmp(t.key, key)
      IN  IF compared = 0 THEN removeThis(t)
          ELSE
            LET removeRight == compared < 0
                next == IF removeRight THEN t.right ELSE t.left
                sub == Remove(next, key)
            IN  IF sub.tree = PANIC THEN sub
                ELSE IF sub.ok
                THEN
                  LET t1 == IF removeRight THEN [t EXCEPT !.right = sub.tree]
                                           ELSE [t EXCEPT !.left = sub.tree]
                      t2 == [t1 EXCEPT !.childSize = t1.childSize - 1]
                  IN  [tree |-> balance(t2, ~removeRight), ok |-> TRUE,
                       under |-> sub.under \/ t1.childSize = 0]
                ELSE \* not present
                     [tree |-> t, ok |-> FALSE, under |-> FALSE]

\* ----------------------------------------------------------- ForEach
\* ForEach and ReverseForEach with the callback cb; the result is the
\* sequence of (key, value) pairs f was called with, in call order
forEach(t, cb, reversed) ==
    LET r == forEachNode(t, cb, <<>>, reversed)
    IN  [i \in 1..Len(r.acc) |->
            <<RootKey(r.acc[i]), RootValue(r.acc[i])>>]

ForEach(t, cb) == IF t = NIL THEN <<>> ELSE forEach(t, cb, FALSE)

ReverseForEach(t, cb) == IF t = NIL THEN <<>> ELSE forEach(t, cb, TRUE)

\* ------------------------------------------------- pointer identity
\* Pointer values are opaque: a Go program can only compare them.  A state
\* is therefore kept up to a renaming of the addresses: when a call
\* returns, the nodes of the returned tree are renumbered 1..n in in-order
\* and the same renaming is applied to the handle the call was made on
\* (last.pre), so that nodes before and after the call stay comparable.  A
\* node the returned tree no longer holds is given the address n+1.
RECURSIVE AddrOrder(_)
AddrOrder(t) ==
    IF t = NIL THEN <<>>
    ELSE AddrOrder(t.left) \o <<t.addr>> \o AddrOrder(t.right)

CanonAddr(order, a) ==
    IF \E i \in 1..Len(order) : order[i] = a
    THEN CHOOSE i \in 1..Len(order) : order[i] = a
    ELSE Len(order) + 1

RECURSIVE Relabel(_, _)
Relabel(t, order) ==
    IF t = NIL THEN NIL
    ELSE [t EXCEPT !.addr = CanonAddr(order, t.addr),
                   !.left = Relabel(t.left, order),
                   !.right = Relabel(t.right, order)]

\* ------------------------------------------------------ the state machine
\* panic: the call dereferenced nil; under: a childSize decrement wrapped
Call(op, key, val, n, ok, out, pre) ==
    [op |-> op, key |-> key, val |-> val, n |-> n, ok |-> ok, out |-> out,
     pre |-> pre, panic |-> FALSE, under |-> FALSE, stop |-> {}]

\* the owner's assignment "example, ok = example.Op(...)" of the result r
\* of the call op; a call that panicked assigns nothing
Assign(op, k, v, r) ==
    IF r.tree = PANIC
    THEN /\ tree' = tree
         /\ last' = [Call(op, k, v, 0, FALSE, <<>>, tree)
                       EXCEPT !.panic = TRUE]
    ELSE \E order \in {AddrOrder(r.tree)} :
             /\ tree' = Relabel(r.tree, order)
             /\ last' = [Call(op, k, v, 0, r.ok, <<>>, Relabel(tree, order))
                           EXCEPT !.under = r.under]

Init ==
    /\ tree = NIL
    /\ model = <<>>
    /\ last = Call("new", ZeroKey, ZeroVal, 0, FALSE, <<>>, NIL)
    /\ phase = "build"

\* example, inserted = example.Insert(k, v)
DoInsert ==
    /\ phase = "build"
    /\ \E k \in KeySet, v \in Vals :
        \E r \in {Insert(tree, k, v)} :
            /\ Assign("Insert", k, v,
                      [tree |-> r.tree, ok |-> r.ok, under |-> FALSE])
            /\ model' = [x \in (DOMAIN model) \cup {k} |->
                            IF x = k THEN v ELSE model[x]]
    /\ UNCHANGED phase

\* example, removed = example.Remove(k)
RemoveCall(k) ==
    \E r \in {Remove(tree, k)} :
        /\ Assign("Remove", k, ZeroVal, r)
        /\ model' = [x \in (DOMAIN model) \ {k} |-> model[x]]

DoRemove ==
    /\ phase = "build"
    /\ \E k \in KeySet : RemoveCall(k)
    /\ UNCHANGED phase

\* the bounded extractions, n >= 0
DoTop ==
    /\ phase = "build"
    /\ \E n \in 0..MaxN,
          f \in {"Least", "LeastKeys", "LeastValues",
                 "Greatest", "GreatestKeys", "GreatestValues"} :
        last' = Call(f, ZeroKey, ZeroVal, n, FALSE,
                     CASE f = "Least" -> Least(tree, n)
                       [] f = "LeastKeys" -> LeastKeys(tree, n)
                       [] f = "LeastValues" -> LeastValues(tree, n)
                       [] f = "Greatest" -> Greatest(tree, n)
                       [] f = "GreatestKeys" -> GreatestKeys(tree, n)
                       [] f = "GreatestValues" -> GreatestValues(tree, n),
                     tree)
    /\ UNCHANGED <<tree, model, phase>>

\* v := example.Get(k) and node := example.GetNode(k)
DoGet ==
    /\ phase = "build"
    /\ \E k \in KeySet :
        last' = Call("Get", k, Get(tree, k), 0, GetNode(tree, k) # NIL, <<>>,
                     tree)
    /\ UNCHANGED <<tree, model, phase>>

\* example.Keys() and example.Values(); n records example.Size()
DoKeys ==
    /\ phase = "build"
    /\ last' = Call("Keys", ZeroKey, ZeroVal, Size(tree), FALSE, Keys(tree),
                    tree)
    /\ UNCHANGED <<tree, model, phase>>

DoValues ==
    /\ phase = "build"
    /\ last' = Call("Values", ZeroKey, ZeroVal, Size(tree), FALSE,
                    Values(tree), tree)
    /\ UNCHANGED <<tree, model, phase>>

\* example.LeastNode() and example.GreatestNode(); out is <<>> for nil
DoExtreme ==
    /\ phase = "build"
    /\ \E f \in {"LeastNode", "GreatestNode"} :
        LET node == IF f = "LeastNode" THEN LeastNode(tree)
                                       ELSE GreatestNode(tree)
        IN  last' = Call(f, RootKey(node), RootValue(node), 0, node # NIL,
                         IF node = NIL THEN <<>> ELSE <<node>>, tree)
    /\ UNCHANGED <<tree, model, phase>>

Next ==
    DoInsert \/ DoRemove \/ DoTop \/ DoGet \/ DoKeys \/ DoValues \/ DoExtreme

Spec == Init /\ [][Next]_vars

\* The callbacks handed to ForEach: f returns false exactly on the keys of
\* stop.  What a walk does depends only on the first key of stop it meets,
\* so stop is empty (f always returns true), one key, or every key (f
\* always returns false).
StopSets == {{}} \cup {{k} : k \in KeySet} \cup {KeySet}

\* example.ForEach(f) and example.ReverseForEach(f); out is the sequence of
\* the (key, value) pairs f was called with
DoForEach ==
    /\ phase = "build"
    /\ \E stop \in StopSets, reversed \in BOOLEAN :
        LET cb == [kind |-> "user", stop |-> stop]
        IN  last' = [Call(IF reversed THEN "ReverseForEach" ELSE "ForEach",
                          ZeroKey, ZeroVal, 0, FALSE,
                          IF reversed THEN ReverseForEach(tree, cb)
                                      ELSE ForEach(tree, cb),
                          tree)
                       EXCEPT !.stop = stop]
    /\ UNCHANGED <<tree, model, phase>>

NextWalk == DoInsert \/ DoRemove \/ DoForEach

SpecWalk == Init /\ [][NextWalk]_vars

\* The owner only inserts and removes (TestTree2Insert, TestTree2Remove):
\* the trees reached are those of Spec, whose other calls leave tree and
\* model as they are.
NextMutate == DoInsert \/ DoRemove

SpecMutate == Init /\ [][NextMutate]_vars

\* The owner builds a tree and then removes every key it contains, one at a
\* time, in any order (TestTree2Remove): once draining, the only calls are
\* Remove of a key that is still present, and the owner keeps calling while
\* a key remains.
StartDrain ==
    /\ phase = "build"
    /\ phase' = "drain"
    /\ last' = Call("drain", ZeroKey, ZeroVal, Size(tree), FALSE, <<>>, tree)
    /\ UNCHANGED <<tree, model>>

DrainStep ==
    /\ phase = "drain"
    /\ \E k \in DOMAIN model : RemoveCall(k)
    /\ UNCHANGED phase

NextDrain == DoInsert \/ DoRemove \/ StartDrain \/ DrainStep

SpecDrain == Init /\ [][NextDrain]_vars /\ WF_vars(DrainStep)

\* =================================================================
\* Properties.  The measures below walk the node records themselves and
\* never read the cached childSize.
\* =================================================================
RECURSIVE Nodes(_)
Nodes(t) == IF t = NIL THEN {} ELSE {t} \cup Nodes(t.left) \cup Nodes(t.right)

RECURSIVE Count(_)
Count(t) == IF t = NIL THEN 0 ELSE 1 + Count(t.left) + Count(t.right)

RECURSIVE InOrder(_)
InOrder(t) ==
    IF t = NIL THEN <<>>
    ELSE InOrder(t.left) \o <<t>> \o InOrder(t.right)

KeysIn(t) == {n.key : n \in Nodes(t)}

Entries(t) == {<<n.key, n.value>> : n \in Nodes(t)}

Ascending(ks) == \A i \in 1..(Len(ks) - 1) : ks[i] < ks[i + 1]

\* a rotation moved another node to the root of the tree the call returned
RootRotated ==
    /\ last.pre # NIL
    /\ tree # NIL
    /\ last.key # last.pre.key
    /\ tree.key # last.pre.key

\* C1: after every Insert and Remove, every node of the tree satisfies
\* (size(left)+1)*3 >= size(right)+1 and (size(right)+1)*3 >= size(left)+1,
\* with the sizes counted and an absent child of size 0.
C1_WeightBalance ==
    \A n \in Nodes(tree) :
        /\ (Count(n.left) + 1) * 3 >= Count(n.right) + 1
        /\ (Count(n.right) + 1) * 3 >= Count(n.left) + 1

\* a Remove that unbalanced an inner node and rotated at the root
C1_Witness ==
    /\ last.op = "Remove"
    /\ last.ok
    /\ RootRotated
    /\ Count(tree) >= 4

\* C2: after every Insert and Remove, for every node all keys of its left
\* subtree are less than its key and all keys of its right subtree greater;
\* the in-order key sequence is strictly ascending and no key occurs twice.
C2_BSTOrder ==
    /\ \A n \in Nodes(tree) :
          /\ \A k \in KeysIn(n.left) : k < n.key
          /\ \A k \in KeysIn(n.right) : k > n.key
    /\ LET io == InOrder(tree)
       IN  Ascending([i \in 1..Len(io) |-> io[i].key])
    /\ Cardinality(KeysIn(tree)) = Count(tree)

\* an Insert that ended in a rotation at the root
C2_Witness ==
    /\ last.op = "Insert"
    /\ last.ok
    /\ RootRotated
    /\ Count(tree) >= 4

\* C3: after every Insert and Remove every node's cached childSize equals
\* the counted size(left)+size(right), and Size() of the returned root is
\* the number of distinct keys inserted and not removed since.
C3_SizeBookkeeping ==
    /\ \A n \in Nodes(tree) : n.childSize = Count(n.left) + Count(n.right)
    /\ Size(tree) = Cardinality(DOMAIN model)

\* a double rotation at the root: the new root is neither the old root nor
\* the old root's child
C3_Witness ==
    /\ last.op \in {"Insert", "Remove"}
    /\ last.ok
    /\ RootRotated
    /\ last.pre.left # NIL => tree.key # last.pre.left.key
    /\ last.pre.right # NIL => tree.key # last.pre.right.key
    /\ Count(tree) >= 4

\* the value the abstract map gives for k: the most recently inserted
\* value, or the zero value when k is not in the map
ModelGet(k) == IF k \in DOMAIN model THEN model[k] ELSE ZeroVal

\* C4: side by side with the abstract map, after every call Get(k) is the
\* most recently inserted value for every key of the map and the zero value
\* for every other key, and GetNode(k) is non-absent exactly for the keys of
\* the map.
C4_MapSemantics ==
    \A k \in KeySet :
        /\ Get(tree, k) = ModelGet(k)
        /\ (GetNode(tree, k) # NIL) <=> (k \in DOMAIN model)

\* a key below the root is looked up while another key is absent
C4_Witness ==
    /\ last.op = "Get"
    /\ last.ok
    /\ last.val = "b"
    /\ tree.key # last.key
    /\ Count(tree) >= 4
    /\ KeySet \ DOMAIN model # {}

\* C5: Insert returns wasAdded = TRUE iff the key was not in the tree before
\* the call; for a key already present it returns FALSE, Size() is unchanged
\* and Get(key) afterwards is the new value.
C5_InsertAdded ==
    last.op = "Insert" =>
        /\ last.ok <=> (last.key \notin KeysIn(last.pre))
        /\ last.key \in KeysIn(last.pre) =>
              /\ ~last.ok
              /\ Size(tree) = Size(last.pre)
              /\ Count(tree) = Count(last.pre)
              /\ Get(tree, last.key) = last.val

\* a value replaced two levels below the root
C5_Witness ==
    /\ last.op = "Insert"
    /\ ~last.ok
    /\ <<last.key, last.val>> \notin Entries(last.pre)
    /\ last.key # last.pre.key
    /\ last.key # RootKey(last.pre.left)
    /\ last.key # RootKey(last.pre.right)

\* C6: Remove of a present key returns wasRemoved = TRUE; in the returned
\* tree the key is absent, Size() is one less, and every other key is still
\* present with the value it had.
C6_RemovePresent ==
    (last.op = "Remove" /\ last.key \in KeysIn(last.pre)) =>
        /\ last.ok
        /\ last.key \notin KeysIn(tree)
        /\ GetNode(tree, last.key) = NIL
        /\ Size(tree) = Size(last.pre) - 1
        /\ Entries(tree) = {e \in Entries(last.pre) : e[1] # last.key}
        /\ \A k \in KeysIn(last.pre) \ {last.key} :
              Get(tree, k) = Get(last.pre, k)

\* the key removed sat at a node with two children below the root
C6_Witness ==
    /\ last.op = "Remove"
    /\ last.ok
    /\ last.key # last.pre.key
    /\ LET n == GetNode(last.pre, last.key)
       IN  n.left # NIL /\ n.right # NIL

\* the other two shapes: the key removed sat at a leaf, at a one-child node
C6_WitnessLeaf ==
    /\ last.op = "Remove"
    /\ last.ok
    /\ tree # NIL
    /\ LET n == GetNode(last.pre, last.key)
       IN  n.left = NIL /\ n.right = NIL

C6_WitnessOneChild ==
    /\ last.op = "Remove"
    /\ last.ok
    /\ LET n == GetNode(last.pre, last.key)
       IN  (n.left = NIL) # (n.right = NIL)

C9_DrainToEmpty ==
    /\ []((phase = "drain" /\ last.op = "Remove") => last.ok)
    /\ []((tree = NIL) <=> (DOMAIN model = {}))
    /\ []((tree = NIL) => Size(tree) = 0)
    /\ (phase = "drain") ~> (tree = NIL)

\* the last key of a drained tree has just been removed
C9_Witness ==
    /\ phase = "drain"
    /\ last.op = "Remove"
    /\ last.ok
    /\ tree = NIL
    /\ Size(tree) = 0

\* C10: each of Least, LeastKeys, LeastValues, Greatest, GreatestKeys and
\* GreatestValues returns a sequence of length at most n, for every n >= 0,
\* n = 0 on a non-empty tree included.
TopOps == {"Least", "LeastKeys", "LeastValues",
           "Greatest", "GreatestKeys", "GreatestValues"}

C10_AtMostN == last.op \in TopOps => Len(last.out) <= last.n

\* the keys of the abstract map in ascending order
RECURSIVE SortedSeq(_)
SortedSeq(S) ==
    IF S = {} THEN <<>>
    ELSE LET m == CHOOSE x \in S : \A y \in S : x <= y
         IN  <<m>> \o SortedSeq(S \ {m})

Reverse(q) == [i \in 1..Len(q) |-> q[Len(q) + 1 - i]]

Prefix(q, n) == SubSeq(q, 1, IF n < Len(q) THEN n ELSE Len(q))

\* the node of t that holds key k, found by walking all of t
NodeOf(t, k) == CHOOSE nd \in Nodes(t) : nd.key = k

\* what an extraction f with bound n must return: the first min(n, Size())
\* entries from its end of the abstract map, as nodes, keys or values
Expected(f, n) ==
    LET asc == SortedSeq(DOMAIN model)
        ks == Prefix(IF f \in {"Least", "LeastKeys", "LeastValues"}
                     THEN asc ELSE Reverse(asc), n)
    IN  [i \in 1..Len(ks) |->
            IF f \in {"LeastKeys", "GreatestKeys"} THEN ks[i]
            ELSE IF f \in {"LeastValues", "GreatestValues"} THEN model[ks[i]]
            ELSE NodeOf(tree, ks[i])]

\* C11: for n >= 1, Least(n) is exactly the min(n, Size()) smallest-keyed
\* entries in ascending key order and Greatest(n) the min(n, Size())
\* largest-keyed entries in descending key order (all entries when n
\* exceeds Size()); LeastNode() and GreatestNode() are the nodes of the
\* minimum and the maximum key of a non-empty tree.
C11_LeastGreatest ==
    /\ (last.op \in TopOps /\ last.n >= 1) =>
          last.out = Expected(last.op, last.n)
    /\ (last.op = "LeastNode" /\ tree # NIL) =>
          last.out = <<NodeOf(tree, SortedSeq(DOMAIN model)[1])>>
    /\ (last.op = "GreatestNode" /\ tree # NIL) =>
          last.out = <<NodeOf(tree, Reverse(SortedSeq(DOMAIN model))[1])>>

\* Greatest(2) on a tree of all keys whose maximum is not at the root
C11_Witness ==
    /\ last.op = "Greatest"
    /\ last.n = 2
    /\ Count(tree) = MaxKey
    /\ Len(last.out) = 2
    /\ last.out[1].key = MaxKey
    /\ tree.key # MaxKey
    /\ tree.right.key # MaxKey

\* n exceeds Size(): all entries are returned
C11_WitnessAll ==
    /\ last.op = "LeastValues"
    /\ last.n = 2
    /\ Count(tree) = 1
    /\ Len(last.out) = 1

\* the entries of the abstract map in ascending key order
ModelEntries ==
    LET asc == SortedSeq(DOMAIN model)
    IN  [i \in 1..Len(asc) |-> <<asc[i], model[asc[i]]>>]

\* the calls a walk over the entries q must make when f returns false on
\* the keys of stop: all of q up to and including the first entry whose key
\* is in stop, and nothing after it
UpToStop(q, stop) ==
    LET hits == {i \in 1..Len(q) : q[i][1] \in stop}
    IN  IF hits = {} THEN q
        ELSE SubSeq(q, 1, CHOOSE i \in hits : \A j \in hits : i <= j)

\* C12: ForEach calls f on the entries in ascending key order and
\* ReverseForEach in descending key order, each entry at most once, and
\* stops at the first call that returns false; an f that returns false on
\* its first call is called exactly once on a non-empty tree, an f that
\* always returns true exactly Size() times.
C12_ForEach ==
    /\ \A stop \in StopSets :
          LET cb == [kind |-> "user", stop |-> stop]
          IN  /\ ForEach(tree, cb) = UpToStop(ModelEntries, stop)
              /\ ReverseForEach(tree, cb) =
                    UpToStop(Reverse(ModelEntries), stop)
    /\ last.op = "ForEach" =>
          /\ last.out = UpToStop(ModelEntries, last.stop)
          /\ \A i, j \in 1..Len(last.out) :
                i < j => last.out[i][1] < last.out[j][1]
          /\ \A i \in 1..(Len(last.out) - 1) : last.out[i][1] \notin last.stop
          /\ (last.stop = KeySet /\ tree # NIL) => Len(last.out) = 1
          /\ last.stop = {} => Len(last.out) = Size(tree)
    /\ last.op = "ReverseForEach" =>
          /\ last.out = UpToStop(Reverse(ModelEntries), last.stop)
          /\ \A i, j \in 1..Len(last.out) :
                i < j => last.out[i][1] > last.out[j][1]
          /\ \A i \in 1..(Len(last.out) - 1) : last.out[i][1] \notin last.stop
          /\ (last.stop = KeySet /\ tree # NIL) => Len(last.out) = 1
          /\ last.stop = {} => Len(last.out) = Size(tree)

\* f returns false inside the left subtree of the root: the root and its
\* right subtree are not visited
C12_Witness ==
    /\ last.op = "ForEach"
    /\ Count(tree) = MaxKey
    /\ last.stop \subseteq KeysIn(tree.left)
    /\ last.stop # {}
    /\ Len(last.out) = 2

\* f returns false at the root, and inside the right subtree
C12_WitnessRoot ==
    /\ last.op = "ReverseForEach"
    /\ Count(tree) = MaxKey
    /\ last.stop = {tree.key}
    /\ Len(last.out) >= 2

C12_WitnessRight ==
    /\ last.op = "ForEach"
    /\ Count(tree) = MaxKey
    /\ last.stop \subseteq KeysIn(tree.right)
    /\ last.stop # {}
    /\ MaxKey \notin last.stop
    /\ Len(last.out) < MaxKey

\* the calls whose result is a sequence
SeqOps == TopOps \cup {"Keys", "Values", "ForEach", "ReverseForEach",
                       "LeastNode", "GreatestNode"}

\* C13: every query on the empty tree returns defaults: Size() is 0, Get,
\* RootKey and RootValue the zero value, GetNode, LeastNode and
\* GreatestNode the absent marker, Keys(), Values(), Least(n), Greatest(n)
\* an empty sequence for every n, ForEach and ReverseForEach call f zero
\* times, and Remove returns the empty tree and FALSE.
C13_EmptyTree ==
    /\ tree = NIL =>
          /\ Size(tree) = 0
          /\ RootKey(tree) = ZeroKey
          /\ RootValue(tree) = ZeroVal
          /\ LeastNode(tree) = NIL
          /\ GreatestNode(tree) = NIL
          /\ Keys(tree) = <<>>
          /\ Values(tree) = <<>>
          /\ \A k \in KeySet :
                /\ Get(tree, k) = ZeroVal
                /\ GetNode(tree, k) = NIL
                /\ Remove(tree, k).tree = NIL
                /\ ~Remove(tree, k).ok
          /\ \A n \in 0..MaxN :
                /\ Least(tree, n) = <<>>
                /\ LeastKeys(tree, n) = <<>>
                /\ LeastValues(tree, n) = <<>>
                /\ Greatest(tree, n) = <<>>
                /\ GreatestKeys(tree, n) = <<>>
                /\ GreatestValues(tree, n) = <<>>
          /\ \A stop \in StopSets :
                /\ ForEach(tree, [kind |-> "user", stop |-> stop]) = <<>>
                /\ ReverseForEach(tree, [kind |-> "user", stop |-> stop])
                      = <<>>
    /\ last.pre = NIL =>
          /\ last.op \in SeqOps => last.out = <<>>
          /\ last.op \in {"Keys", "Values"} => last.n = 0
          /\ last.op = "Get" => (last.val = ZeroVal /\ ~last.ok)
          /\ last.op \in {"LeastNode", "GreatestNode"} => ~last.ok
          /\ last.op = "Remove" => (tree = NIL /\ ~last.ok /\ ~last.panic)

\* Remove was called on a tree that has been emptied again
C13_Witness ==
    /\ last.op = "Remove"
    /\ last.pre = NIL
    /\ tree = NIL
    /\ ~last.ok

\* the keys two levels below the root
Children(t) == IF t = NIL THEN {} ELSE {t.left, t.right} \ {NIL}

GrandKeys(t) == {g.key : g \in UNION {Children(c) : c \in Children(t)}}

\* C14: no Insert or Remove on a tree reachable by Insert/Remove calls
\* dereferences an absent node (c when the balance test fails, b when the
\* double rotation is chosen, the in-order successor of a two-children
\* node) and no childSize decrement goes below 0; this holds of the call
\* that was made and of every call that can be made next.
C14_NoFailure ==
    /\ last.op \in {"Insert", "Remove"} => (~last.panic /\ ~last.under)
    /\ \A n \in Nodes(tree) : n.childSize >= 0
    /\ \A k \in KeySet :
          /\ Insert(tree, k, "a").tree # PANIC
          /\ LET r == Remove(tree, k)
             IN  r.tree # PANIC /\ ~r.under
    /\ \A n \in Nodes(tree) :
          (n.left # NIL /\ n.right # NIL) => LeastNode(n.right) # NIL

\* a double rotation at the root: a grandchild of the old root is the new
\* root
C14_Witness ==
    /\ last.op \in {"Insert", "Remove"}
    /\ last.ok
    /\ tree # NIL
    /\ tree.key \in GrandKeys(last.pre)
    /\ last.key # tree.key

\* the successor of a two-children root was looked up and removed, and
\* the root was rebalanced after it
C14_WitnessSuccessor ==
    /\ last.op = "Remove"
    /\ last.ok
    /\ last.key = last.pre.key
    /\ last.pre.left # NIL
    /\ last.pre.right # NIL
    /\ tree.addr # last.pre.addr

\* t with the value stored for key k set to v and nothing else touched
RECURSIVE WithValue(_, _, _)
WithValue(t, k, v) ==
    IF t = NIL THEN NIL
    ELSE [addr |-> t.addr,
          key |-> t.key,
          value |-> IF t.key = k THEN v ELSE t.value,
          left |-> WithValue(t.left, k, v),
          right |-> WithValue(t.right, k, v),
          childSize |-> t.childSize]

\* C15: Insert of a key that is already present is an in-place value
\* update: the handle returned is the root node it was called on, no
\* rotation happens at any level, shape, node identities, keys and
\* childSize are unchanged, every other key keeps its value, and the
\* inserted key now has the new value.
C15_ReplaceInPlace ==
    (last.op = "Insert" /\ last.key \in KeysIn(last.pre)) =>
        /\ ~last.ok
        /\ tree.addr = last.pre.addr
        /\ tree.key = last.pre.key
        /\ tree = WithValue(last.pre, last.key, last.val)
        /\ [i \in 1..Len(InOrder(tree)) |-> InOrder(tree)[i].addr]
              = [i \in 1..Len(InOrder(last.pre)) |->
                    InOrder(last.pre)[i].addr]
        /\ \A k \in KeysIn(last.pre) \ {last.key} :
              Get(tree, k) = Get(last.pre, k)
        /\ Get(tree, last.key) = last.val

\* a value was changed at a leaf below the root of a full tree
C15_Witness ==
    /\ last.op = "Insert"
    /\ ~last.ok
    /\ Count(last.pre) = MaxKey
    /\ last.key # last.pre.key
    /\ Get(last.pre, last.key) # last.val
    /\ LET n == GetNode(last.pre, last.key)
       IN  n.left = NIL /\ n.right = NIL

\* ------------------------------------------------ the rebalance step
\* The arguments balance is called with while Insert(t, key, val) runs:
\* at every node on the search path above an added leaf, after the child
\* pointer and childSize were updated.
RECURSIVE InsertCalls(_, _, _)
InsertCalls(t, key, val) ==
    IF t = NIL \/ RootKey(t) = key THEN {}
    ELSE
      LET addRight == Cmp(t.key, key) < 0
          next == IF addRight THEN t.right ELSE t.left
          sub == Insert(next, key, val)
          t1 == IF addRight THEN [t EXCEPT !.right = sub.tree]
                            ELSE [t EXCEPT !.left = sub.tree]
          t2 == [t1 EXCEPT !.childSize = t1.childSize + 1]
      IN  IF sub.tree = PANIC \/ ~sub.ok THEN {}
          ELSE InsertCalls(next, key, val)
                 \cup {[t |-> t2, rightHeavy |-> addRight]}

\* The arguments balance is called with while Remove(t, key) runs: at the
\* two-children node whose successor was removed from its right subtree,
\* and at every node above a removal.
RECURSIVE RemoveCalls(_, _)
RemoveCalls(t, key) ==
    IF t = NIL THEN {}
    ELSE IF t.key = key
    THEN IF t.left # NIL /\ t.right # NIL
         THEN LET rightMin == LeastNode(t.right)
                  t1 == [t EXCEPT !.key = rightMin.key,
                                  !.value = rightMin.value]
                  sub == Remove(t1.right, rightMin.key)
                  t2 == [t1 EXCEPT !.right = sub.tree]
                  t3 == [t2 EXCEPT !.childSize = t2.childSize - 1]
              IN  IF sub.tree = PANIC THEN {}
                  ELSE RemoveCalls(t1.right, rightMin.key)
                         \cup {[t |-> t3, rightHeavy |-> FALSE]}
         ELSE {}
    ELSE
      LET removeRight == Cmp(t.key, key) < 0
          next == IF removeRight THEN t.right ELSE t.left
          sub == Remove(next, key)
          t1 == IF removeRight THEN [t EXCEPT !.right = sub.tree]
                               ELSE [t EXCEPT !.left = sub.tree]
          t2 == [t1 EXCEPT !.childSize = t1.childSize - 1]
      IN  IF sub.tree = PANIC \/ ~sub.ok THEN {}
          ELSE RemoveCalls(next, key)
                 \cup {[t |-> t2, rightHeavy |-> ~removeRight]}

\* every call of balance that an Insert or a Remove on the tree makes
BalanceCalls ==
    UNION {InsertCalls(tree, k, "a") \cup RemoveCalls(tree, k) : k \in KeySet}

\* the two children of n, the one on the light side of the call first
Kids(n, rightHeavy) ==
    IF rightHeavy THEN <<n.left, n.right>> ELSE <<n.right, n.left>>

\* n is the node object m, with the key and value m has
SameNode(n, m) ==
    /\ n # NIL
    /\ m # NIL
    /\ n.addr = m.addr
    /\ n.key = m.key
    /\ n.value = m.value

\* the in-order sequence of (key, value) pairs
Pairs(t) == [i \in 1..Len(InOrder(t)) |->
                <<InOrder(t)[i].key, InOrder(t)[i].value>>]

\* what the rebalance step did to t: "none", "single" or "double"
Rotation(t, rightHeavy) ==
    LET x == Kids(t, rightHeavy)[1]
        c == Kids(t, rightHeavy)[2]
        b == IF c = NIL THEN NIL ELSE Kids(c, rightHeavy)[1]
        z == IF c = NIL THEN NIL ELSE Kids(c, rightHeavy)[2]
    IN  IF (Count(x) + 1) * 3 >= Count(c) + 1 THEN "none"
        ELSE IF Count(b) + 1 < 2 * (Count(z) + 1) THEN "single"
        ELSE "double"

\* the result r of the rebalance step is the one described for t
Rebalanced(t, rightHeavy, r) ==
    LET x == Kids(t, rightHeavy)[1]
        c == Kids(t, rightHeavy)[2]
        b == Kids(c, rightHeavy)[1]
        z == Kids(c, rightHeavy)[2]
        rot == Rotation(t, rightHeavy)
    IN  /\ r # PANIC
        /\ rot = "none" => r = t
        /\ rot = "single" =>
              /\ SameNode(r, c)
              /\ SameNode(Kids(r, rightHeavy)[1], t)
              /\ Kids(Kids(r, rightHeavy)[1], rightHeavy) = <<x, b>>
              /\ Kids(r, rightHeavy)[2] = z
        /\ rot = "double" =>
              /\ SameNode(r, b)
              /\ SameNode(Kids(r, rightHeavy)[1], t)
              /\ SameNode(Kids(r, rightHeavy)[2], c)
              /\ Kids(Kids(r, rightHeavy)[1], rightHeavy)
                    = <<x, Kids(b, rightHeavy)[1]>>
              /\ Kids(Kids(r, rightHeavy)[2], rightHeavy)
                    = <<Kids(b, rightHeavy)[2], z>>
        /\ Pairs(r) = Pairs(t)
        /\ Addrs(r) = Addrs(t)
        /\ Count(r) = Count(t)

\* C16: the rebalance step at t with light-side subtree x, heavy-side
\* child c and c's near and far grandchildren b, z returns t unchanged when
\* (size(x)+1)*3 >= size(c)+1; else, when size(b)+1 < 2*(size(z)+1), it
\* returns c with children t(x, b) and z, and otherwise b with children
\* t(x, s) and c(y, z); the in-order (key, value) sequence and the set of
\* nodes are kept and x, s, y, z are not modified.  Checked for every call
\* of balance that an Insert or a Remove on a reachable tree makes.
C16_RebalanceStep ==
    \A call \in BalanceCalls :
        Rebalanced(call.t, call.rightHeavy, balance(call.t, call.rightHeavy))

\* a Remove is about to rotate twice on the left-heavy side, and b has a
\* child to hand over
C16_Witness ==
    \E k \in KeySet : \E call \in RemoveCalls(tree, k) :
        /\ ~call.rightHeavy
        /\ Rotation(call.t, FALSE) = "double"
        /\ Children(call.t.left.right) # {}

\* an Insert is about to rotate once, with both b and z present
C16_WitnessSingle ==
    \E k \in KeySet : \E call \in InsertCalls(tree, k, "a") :
        /\ Rotation(call.t, call.rightHeavy) = "single"
        /\ Cardinality(Children(Kids(call.t, call.rightHeavy)[2])) = 2

\* a call of balance that finds the node balanced, below the root
C16_WitnessNone ==
    \E k \in KeySet : \E call \in InsertCalls(tree, k, "a") :
        /\ Rotation(call.t, call.rightHeavy) = "none"
        /\ call.t.key # tree.key
        /\ Count(call.t) >= 3

\* ------------------------------------------------------------- height
RECURSIVE Pow(_, _)
Pow(b, e) == IF e = 0 THEN 1 ELSE b * Pow(b, e - 1)

\* the depths at which t holds a node, t itself at depth d
RECURSIVE Depths(_, _)
Depths(t, d) ==
    IF t = NIL THEN {}
    ELSE {d} \cup Depths(t.left, d + 1) \cup Depths(t.right, d + 1)

\* C17: in every tree reachable by Insert and Remove calls, every node at
\* depth d (the root at depth 0) satisfies 2 * 4^d <= 3^d * (Size() + 1),
\* Size() being the size of the whole tree.
C17_LogHeight ==
    \A d \in Depths(tree, 0) :
        /\ 2 * Pow(4, d) <= Pow(3, d) * (Size(tree) + 1)
        /\ 2 * Pow(4, d) <= Pow(3, d) * (Count(tree) + 1)

\* a tree of the greatest height the bound allows: a node at depth 2 in a
\* tree of three keys, after a Remove
C17_Witness ==
    /\ last.op = "Remove"
    /\ last.ok
    /\ Count(tree) = 3
    /\ 2 \in Depths(tree, 0)

\* ------------------------------------------------------------- mirror
\* the left/right mirror image of t: the same nodes, children swapped
RECURSIVE Mirror(_)
Mirror(t) ==
    IF t = NIL \/ t = PANIC THEN t
    ELSE [t EXCEPT !.left = Mirror(t.right), !.right = Mirror(t.left)]

\* the key that takes the place of k when the order of the keys is reversed
Flip(k) == MaxKey + 1 - k

\* the mirror image of t under the reversed key order
RECURSIVE MirrorFlip(_)
MirrorFlip(t) ==
    IF t = NIL \/ t = PANIC THEN t
    ELSE [t EXCEPT !.key = Flip(t.key),
                   !.left = MirrorFlip(t.right),
                   !.right = MirrorFlip(t.left)]

\* C18: the rebalance step with rightHeavy = TRUE yields the mirror image
\* of the step with rightHeavy = FALSE on the mirror image, and the other
\* way round; an Insert under the reversed key order into the mirror image
\* of a tree yields the mirror image of the Insert into the tree, node for
\* node and childSize for childSize, so that insertion sequences under
\* the two orders build mirror images of each other.
C18_MirrorSymmetry ==
    /\ \A call \in BalanceCalls :
          balance(call.t, call.rightHeavy)
             = Mirror(balance(Mirror(call.t), ~call.rightHeavy))
    /\ \A k \in KeySet, v \in Vals :
          LET a == Insert(tree, k, v)
              b == Insert(MirrorFlip(tree), Flip(k), v)
          IN  /\ b.tree = MirrorFlip(a.tree)
              /\ b.ok = a.ok

\* an Insert rotated a node of the left subtree to the root
C18_Witness ==
    /\ last.op = "Insert"
    /\ last.ok
    /\ RootRotated
    /\ tree.key < last.pre.key
    /\ Count(tree) >= 4

\* ------------------------------------------------------ node identity
\* the keys present before and after the last call, the call's key excepted
StayingKeys == (KeysIn(last.pre) \cap KeysIn(tree)) \ {last.key}

\* the node object GetNode(k) returned before the call is the one it
\* returns now; it still stores k and is reachable from the returned root
SameObject(k) ==
    LET before == GetNode(last.pre, k)
        after == GetNode(tree, k)
    IN  /\ after.addr = before.addr
        /\ \E n \in Nodes(tree) : n.addr = before.addr /\ n.key = k

\* the key whose entry a Remove moves: the in-order successor of the key
\* removed, when that key sat at a node with two children
MovedKeys ==
    LET n == GetNode(last.pre, last.key)
    IN  IF last.op = "Remove" /\ n # NIL /\ n.left # NIL /\ n.right # NIL
        THEN {LeastNode(n.right).key}
        ELSE {}

\* C19 as stated: if key k is present both before and after an Insert or a
\* Remove of a different key, GetNode(k) returns the same node object
\* before and after, and the node still stores k and is reachable.
C19_IdentityStable ==
    last.op \in {"Insert", "Remove"} =>
        \A k \in StayingKeys : SameObject(k)

\* C19 amended: the same, except for the in-order successor of a key that
\* Remove took from a node with two children: the successor's entry moves
\* into the node that held the removed key, and the node that held the
\* successor is no longer reachable from the returned root.
C19_IdentityStableButSuccessor ==
    last.op \in {"Insert", "Remove"} =>
        /\ \A k \in StayingKeys \ MovedKeys : SameObject(k)
        /\ \A k \in MovedKeys :
              /\ k \in StayingKeys
              /\ GetNode(tree, k).addr = GetNode(last.pre, last.key).addr
              /\ GetNode(last.pre, k).addr \notin Addrs(tree)

\* a Remove at a two-children node whose successor lay deeper than its
\* right child, with other keys staying where they were
C19_Witness ==
    /\ last.op = "Remove"
    /\ last.ok
    /\ MovedKeys # {}
    /\ GetNode(last.pre, last.key).right.left # NIL
    /\ StayingKeys \ MovedKeys # {}

\* an Insert that rotated at the root and left every key at its node
C19_WitnessInsert ==
    /\ last.op = "Insert"
    /\ last.ok
    /\ RootRotated
    /\ Cardinality(StayingKeys) >= 3

====
